---- MODULE Spec2Model ----
(***************************************************************************)
(* Model of the sprite extractor core (src/sprite_extractor.py) together   *)
(* with the edits its front-end collaborator makes on detected sprites     *)
(* (src/main_window.py).                                                   *)
(*                                                                         *)
(* An image buffer is a uniform background carrying axis-aligned, pairwise *)
(* separated rectangular blobs; every pixel has equal B, G and R values    *)
(* (field v) and an alpha value (field a, read only for 4-channel         *)
(* buffers).  On such buffers the OpenCV calls of detect_sprites have a    *)
(* closed form on rectangles, which the operators below compute.           *)
(***************************************************************************)
EXTENDS Integers, Sequences, FiniteSets, TLC

VARIABLES original_image, image_path, sprites, last_mask, ret, edits

\* the SpriteExtractor instances used by worker threads, and those threads
VARIABLES extractors, threads

\* the progress of MainWindow.run_batch_processing over the enumerated files
VARIABLES batch

vars == <<original_image, image_path, sprites, last_mask, ret, edits,
          extractors, threads, batch>>

(***************************************************************************)
(* Program constants.                                                      *)
(***************************************************************************)
Border == 20
CornerSize == 10
MarginCap == 20
MarginDiv == 50
RowBucket == 50
Tolerance == 100
MaxVal == 255
LightLevel == 127
NoRotation == -1

(***************************************************************************)
(* Bounds of the model.                                                    *)
(***************************************************************************)
MaxEdits == 1
MaxCols == 4
MaxRows == 3

None == "None"

\* an Optional value that is not a string: <<>> when absent, <<v>> when present
Absent == <<>>
Some(v) == <<v>>

\* the sequence f as an explicit tuple of its elements
List(f) == SubSeq(f, 1, Len(f))

(***************************************************************************)
(* The files on disk: the decoded buffers and the outcomes of cv2.imread.  *)
(***************************************************************************)
Blob(x, y, w, h, v, a) == [x |-> x, y |-> y, w |-> w, h |-> h, v |-> v, a |-> a]

Catalog ==
  [ sheet |-> [w |-> 200, h |-> 200, ch |-> 4, v |-> 0, a |-> 0,
               blobs |-> << Blob(10, 10, 50, 50, 90, 255),
                            Blob(110, 10, 50, 50, 150, 255),
                            Blob(10, 110, 50, 50, 30, 255),
                            Blob(110, 110, 50, 50, 220, 255) >>],
    light |-> [w |-> 300, h |-> 200, ch |-> 3, v |-> 255, a |-> 255,
               blobs |-> << Blob(34, 44, 60, 40, 50, 255),
                            Blob(120, 30, 50, 50, 50, 255),
                            Blob(200, 100, 12, 12, 50, 255),
                            Blob(222, 34, 40, 40, 230, 255) >>],
    murky |-> [w |-> 100, h |-> 100, ch |-> 3, v |-> 100, a |-> 255,
               blobs |-> << Blob(40, 40, 20, 20, 20, 255) >>],
    gray  |-> [w |-> 120, h |-> 120, ch |-> 1, v |-> 0, a |-> 255,
               blobs |-> << Blob(40, 40, 40, 40, 200, 255) >>] ]

(***************************************************************************)
(* Generated sheets: n equal dark squares on a white 3-channel background, *)
(* laid out in reading order on a lattice of c columns with the given      *)
(* pitch.                                                                  *)
(***************************************************************************)
Pitches == {120, 70}

GridShapes ==
  {s \in Pitches \X (1..MaxCols) \X (1..(MaxCols * MaxRows)) :
     s[2] <= s[3] /\ s[3] <= s[2] * MaxRows}

GridId(s) ==
  "grid" \o ToString(s[1]) \o "_" \o ToString(s[2]) \o "_" \o ToString(s[3])

GridRows(s) == (s[3] + s[2] - 1) \div s[2]

GridImage(s) ==
  [w |-> 100 + (s[2] - 1) * s[1], h |-> 100 + (GridRows(s) - 1) * s[1],
   ch |-> 3, v |-> 255, a |-> 255,
   blobs |-> List([i \in 1..s[3] |->
                     Blob(30 + ((i - 1) % s[2]) * s[1],
                          30 + ((i - 1) \div s[2]) * s[1], 40, 40, 60, 255)])]

GridIds == {GridId(s) : s \in GridShapes}

GridImages == [id \in GridIds |-> GridImage(CHOOSE s \in GridShapes : GridId(s) = id)]

\* buffers with a dimension of at most 41 pixels
Small ==
  [ strip  |-> [w |-> 40, h |-> 200, ch |-> 3, v |-> 255, a |-> 255,
                blobs |-> << Blob(5, 60, 30, 60, 50, 255) >>],
    sliver |-> [w |-> 41, h |-> 200, ch |-> 3, v |-> 255, a |-> 255,
                blobs |-> << >>],
    chip   |-> [w |-> 40, h |-> 40, ch |-> 4, v |-> 0, a |-> 0,
                blobs |-> << Blob(8, 8, 24, 24, 200, 255) >>],
    dot    |-> [w |-> 15, h |-> 120, ch |-> 3, v |-> 0, a |-> 255,
                blobs |-> << Blob(2, 30, 11, 60, 200, 255) >>] ]

\* a light sheet whose sprites differ in size by odd numbers of pixels
Uneven ==
  [ uneven |-> [w |-> 300, h |-> 200, ch |-> 3, v |-> 255, a |-> 255,
                blobs |-> << Blob(30, 30, 61, 45, 40, 255),
                             Blob(130, 30, 40, 70, 40, 255),
                             Blob(210, 30, 23, 24, 200, 255) >>] ]

Images == Catalog @@ GridImages @@ Small @@ Uneven

ImageIds == DOMAIN Images

GridPath(id) == id \o ".png"

GridFiles ==
  [p \in {GridPath(id) : id \in GridIds} |->
     CHOOSE id \in GridIds : GridPath(id) = p]

GridPaths == DOMAIN GridFiles

Files ==
  [ sheet_png   |-> "sheet",
    light_jpg   |-> "light",
    murky_jpg   |-> "murky",
    gray_png    |-> "gray",
    missing_png |-> "missing",
    notes_txt   |-> "undecodable",
    huge_png    |-> "error" ]

\* a file that matches *.png and holds no decodable image
Damaged == [corrupt_png |-> "undecodable"]

SmallFiles ==
  [ strip_png |-> "strip", sliver_png |-> "sliver", chip_png |-> "chip",
    dot_png |-> "dot" ]

Disk == Files @@ GridFiles @@ Damaged @@ SmallFiles

Paths == DOMAIN Files

Thresholds == {10, 50}
MinAreas == {100, 2000, 100000}
LayoutHints == {None, "3x2", "2x3", "2x2"}
Angles == {0, 90, 180, 270}
QuickViews == {"front", "top"}
Indices == {-1, 0, 1}
Paddings == {0, 10}

Min(a, b) == IF a < b THEN a ELSE b
Max(a, b) == IF a > b THEN a ELSE b

(***************************************************************************)
(* cv2.imread(path, IMREAD_UNCHANGED): the decoded buffer, None for a      *)
(* missing or undecodable file, or an exception.                           *)
(***************************************************************************)
imread(path) ==
  CASE Disk[path] \in ImageIds -> [raised |-> FALSE, value |-> Disk[path]]
    [] Disk[path] = "error"    -> [raised |-> TRUE, value |-> None]
    [] OTHER                   -> [raised |-> FALSE, value |-> None]

(***************************************************************************)
(* Rectangles are half-open: columns x0..x1-1, rows y0..y1-1.              *)
(***************************************************************************)
Rect(x0, y0, x1, y1) == [x0 |-> x0, y0 |-> y0, x1 |-> x1, y1 |-> y1]

BlobRect(b) == Rect(b.x, b.y, b.x + b.w, b.y + b.h)

IsEmpty(r) == r.x0 >= r.x1 \/ r.y0 >= r.y1

Area(r) == IF IsEmpty(r) THEN 0 ELSE (r.x1 - r.x0) * (r.y1 - r.y0)

Overlap(r, q) ==
  Area(Rect(Max(r.x0, q.x0), Max(r.y0, q.y0), Min(r.x1, q.x1), Min(r.y1, q.y1)))

RECURSIVE SumUpTo(_, _)
SumUpTo(f, n) == IF n = 0 THEN 0 ELSE f[n] + SumUpTo(f, n - 1)

SeqSum(f) == SumUpTo(f, Len(f))

SelectIdx(s, keep) ==
  LET n == Len(s)
      Pos(i) == Cardinality({j \in 1..i : keep[j]})
      m == Cardinality({j \in 1..n : keep[j]})
  IN  List([p \in 1..m |-> s[CHOOSE i \in 1..n : keep[i] /\ Pos(i) = p]])

(***************************************************************************)
(* list.sort(key=...): stable, ascending in the lexicographic order of the *)
(* two-component keys.                                                     *)
(***************************************************************************)
KeyLess(a, b) == a[1] < b[1] \/ (a[1] = b[1] /\ a[2] < b[2])

StableSort(s, keys) ==
  LET n == Len(s)
      Rank(i) == Cardinality({j \in 1..n : KeyLess(keys[j], keys[i])})
                 + Cardinality({j \in 1..i : keys[j] = keys[i]})
  IN  List([p \in 1..n |-> s[CHOOSE i \in 1..n : Rank(i) = p]])

(***************************************************************************)
(* Background mode selection and the raw mask (detect_sprites).            *)
(***************************************************************************)
HasUsefulAlpha(img) ==
  /\ img.ch = 4
  /\ (img.a # MaxVal \/ \E i \in 1..Len(img.blobs) : img.blobs[i].a # MaxVal)

\* numpy slices gray[m:m+corner] and gray[-m-corner:-m] on an axis of length d
SliceLo(d, m) == <<Min(m, d), Min(m + CornerSize, d)>>

SliceHi(d, m) ==
  IF m = 0 THEN <<Max(d - CornerSize, 0), 0>>
  ELSE <<Max(d - m - CornerSize, 0), Max(d - m, 0)>>

Margin(d) == Min(MarginCap, d \div MarginDiv)

Patch(cols, rows) == Rect(cols[1], rows[1], cols[2], rows[2])

SamplesAt(rl, rh, cl, ch) ==
  << Patch(cl, rl), Patch(ch, rl), Patch(cl, rh), Patch(ch, rh) >>

CornerSamples(img) ==
  SamplesAt(SliceLo(img.h, Margin(img.h)), SliceHi(img.h, Margin(img.h)),
            SliceLo(img.w, Margin(img.w)), SliceHi(img.w, Margin(img.w)))

\* sum of the gray values of the pixels of patch r
PatchSum(img, r) ==
  img.v * Area(r)
  + SeqSum([i \in 1..Len(img.blobs) |->
              (img.blobs[i].v - img.v) * Overlap(r, BlobRect(img.blobs[i]))])

\* avg_corner_val > 127; the mean of an empty patch is nan and nan > 127 is
\* false.  With all four patches non-empty the four areas are equal.
AvgAbove(img, s) ==
  /\ \A i \in 1..4 : ~IsEmpty(s[i])
  /\ \A i \in 1..4 : Area(s[i]) = Area(s[1])
  /\ SeqSum([i \in 1..4 |-> PatchSum(img, s[i])]) > LightLevel * 4 * Area(s[1])

IsLightBg(img) == AvgAbove(img, CornerSamples(img))

\* cv2.threshold: THRESH_BINARY keeps src > thresh, THRESH_BINARY_INV keeps
\* src <= thresh.  In alpha mode the alpha channel is thresholded at 0.
Binary(has_useful_alpha, is_light_bg, threshold, v, a) ==
  IF has_useful_alpha THEN a > 0
  ELSE IF is_light_bg THEN ~(v > MaxVal - threshold)
  ELSE v > threshold

Foreground(img, threshold, v, a) ==
  Binary(HasUsefulAlpha(img), IsLightBg(img), threshold, v, a)

\* connected regions of the raw mask: the whole frame when the background is
\* foreground, else the foreground blobs
RawRegions(img, has_useful_alpha, is_light_bg, threshold) ==
  IF Binary(has_useful_alpha, is_light_bg, threshold, img.v, img.a)
  THEN << Rect(0, 0, img.w, img.h) >>
  ELSE SelectIdx([i \in 1..Len(img.blobs) |-> BlobRect(img.blobs[i])],
                 [i \in 1..Len(img.blobs) |->
                    Binary(has_useful_alpha, is_light_bg, threshold,
                           img.blobs[i].v, img.blobs[i].a)])

RawMask(img, threshold) ==
  RawRegions(img, HasUsefulAlpha(img), IsLightBg(img), threshold)

(***************************************************************************)
(* Morphology with the 3x3 kernel.  Outside the frame erode sees           *)
(* foreground and dilate sees background (OpenCV's default border value).  *)
(***************************************************************************)
Erode(img, r) ==
  Rect(IF r.x0 = 0 THEN 0 ELSE r.x0 + 1, IF r.y0 = 0 THEN 0 ELSE r.y0 + 1,
       IF r.x1 = img.w THEN img.w ELSE r.x1 - 1,
       IF r.y1 = img.h THEN img.h ELSE r.y1 - 1)

Dilate(img, r) ==
  IF IsEmpty(r) THEN r
  ELSE Rect(Max(r.x0 - 1, 0), Max(r.y0 - 1, 0),
            Min(r.x1 + 1, img.w), Min(r.y1 + 1, img.h))

\* MORPH_OPEN x1, erode x2, dilate x1
CleanRect(img, r) ==
  Dilate(img, Erode(img, Erode(img, Dilate(img, Erode(img, r)))))

NonEmpty(rects) == SelectIdx(rects, [i \in 1..Len(rects) |-> ~IsEmpty(rects[i])])

CleanAll(img, raw) == NonEmpty([i \in 1..Len(raw) |-> CleanRect(img, raw[i])])

CleanMask(img, threshold) == CleanAll(img, RawMask(img, threshold))

ClearBorderNear(img, r) == Rect(Max(r.x0, Border), Max(r.y0, Border), r.x1, r.y1)

\* binary[0:border,:] = 0, binary[-border:,:] = 0, and the same on columns
ClearBorder(img, r) ==
  Rect(Max(r.x0, Border), Max(r.y0, Border),
       Min(r.x1, img.w - Border), Min(r.y1, img.h - Border))

\* cv2.findContours(RETR_EXTERNAL): one contour per region, listed from the
\* last region met in raster order to the first
ReverseRaster(live) ==
  StableSort(live, [i \in 1..Len(live) |-> <<-live[i].y0, -live[i].x0>>])

FindContours(img, mask) ==
  ReverseRaster(NonEmpty([i \in 1..Len(mask) |-> ClearBorder(img, mask[i])]))

\* cv2.boundingRect
BoundingRect(r) == <<r.x0, r.y0, r.x1 - r.x0, r.y1 - r.y0>>

(***************************************************************************)
(* Region extraction: area filter, reading order, Sprite records.          *)
(***************************************************************************)
FilterAreaStrict(boxes, min_area) ==
  SelectIdx(boxes, [i \in 1..Len(boxes) |-> boxes[i][3] * boxes[i][4] > min_area])

\* bboxes.append((x, y, w, h)) for the contours with w * h >= min_area
FilterArea(boxes, min_area) ==
  SelectIdx(boxes, [i \in 1..Len(boxes) |-> boxes[i][3] * boxes[i][4] >= min_area])

\* Python's round(y / 50): round half to even
HalfEven(q, r, d) ==
  IF 2 * r < d THEN q
  ELSE IF 2 * r > d THEN q + 1
  ELSE IF q % 2 = 0 THEN q ELSE q + 1

PyRoundDiv(y, d) == HalfEven(y \div d, y % d, d)

SortKey(b) == <<PyRoundDiv(b[2], RowBucket) * RowBucket, b[1]>>

SortBBoxesByY(boxes) ==
  StableSort(boxes, [i \in 1..Len(boxes) |-> <<boxes[i][2], boxes[i][1]>>])

\* bboxes.sort(key=lambda b: (round(b[1] / 50) * 50, b[0]))
SortBBoxes(boxes) == StableSort(boxes, [i \in 1..Len(boxes) |-> SortKey(boxes[i])])

\* sprite_img = image[y:y+h, x:x+w]: basic slicing, so the crop is a view of
\* the array `image` (the copy of line 61) and owns no data; base is the
\* array whose storage it uses, None for an array that owns its data
Crop(src, box) ==
  [src |-> src, ch |-> Images[src].ch, w |-> box[3], h |-> box[4],
   base |-> "image"]

\* Sprite(bbox=(x, y, w, h), image=sprite_img, index=idx): view_type takes the
\* dataclass default, and the dataclass declares no rotation field
NewSprite(src, idx, box) ==
  [bbox |-> box, image |-> Crop(src, box),
   index |-> idx, view_type |-> "unknown", rotation |-> NoRotation]

MakeSprites(src, boxes) ==
  List([i \in 1..Len(boxes) |-> NewSprite(src, i - 1, boxes[i])])

(***************************************************************************)
(* Grid structure and view classification.                                 *)
(***************************************************************************)
SortInts(s) == StableSort(s, [i \in 1..Len(s) |-> <<s[i], 0>>])

YCenters(sp) == SortInts([i \in 1..Len(sp) |-> sp[i].bbox[2] + sp[i].bbox[4] \div 2])

XCenters(sp) == SortInts([i \in 1..Len(sp) |-> sp[i].bbox[1] + sp[i].bbox[3] \div 2])

count_clusters(positions) ==
  IF Len(positions) = 0 THEN 0
  ELSE 1 + Cardinality({i \in 2..Len(positions) :
                          positions[i] - positions[i - 1] > Tolerance})

_detect_grid_structure(sp) ==
  IF Len(sp) = 0 THEN <<0, 0>>
  ELSE <<count_clusters(YCenters(sp)), count_clusters(XCenters(sp))>>

Abs(x) == IF x < 0 THEN -x ELSE x

RECURSIVE UniqueClusters(_, _, _)
UniqueClusters(positions, i, acc) ==
  IF i > Len(positions) THEN acc
  ELSE UniqueClusters(positions, i + 1,
         IF \E k \in 1..Len(acc) : Abs(positions[i] - acc[k]) < Tolerance
         THEN acc ELSE Append(acc, positions[i]))

MinOf(S) == CHOOSE i \in S : \A j \in S : i <= j

FirstHit(hits) == IF hits = {} THEN 0 ELSE MinOf(hits) - 1

FirstWithin(val, uc) == FirstHit({i \in 1..Len(uc) : Abs(val - uc[i]) < Tolerance})

\* unique_clusters after unique_clusters.sort()
Clusters(positions) == SortInts(UniqueClusters(positions, 1, <<>>))

get_cluster_index(val, positions) == FirstWithin(val, Clusters(positions))

\* the grid position of s, given the sorted cluster representatives of the
\* two axes (the same for every sprite of one classification)
GridPosition(s, y_clusters, x_clusters) ==
  << FirstWithin(s.bbox[2] + s.bbox[4] \div 2, y_clusters),
     FirstWithin(s.bbox[1] + s.bbox[3] \div 2, x_clusters) >>

_get_sprite_grid_position(sp, s) ==
  GridPosition(s, Clusters(YCenters(sp)), Clusters(XCenters(sp)))

RelabelButLast(sp, views) ==
  List([i \in 1..Len(sp) |->
          IF i < Len(views) THEN [sp[i] EXCEPT !.view_type = views[i]] ELSE sp[i]])

\* for i, s in enumerate(sprites): if i < len(views): s.view_type = views[i]
Relabel(sp, views) ==
  List([i \in 1..Len(sp) |->
          IF i <= Len(views) THEN [sp[i] EXCEPT !.view_type = views[i]] ELSE sp[i]])

GridLabel(rc) == "row" \o ToString(rc[1] + 1) \o "_col" \o ToString(rc[2] + 1)

\* for sprite in self.sprites: sprite.view_type = f"row{r+1}_col{c+1}"
GridLabels(sp, y_clusters, x_clusters) ==
  List([i \in 1..Len(sp) |->
          [sp[i] EXCEPT !.view_type =
             GridLabel(GridPosition(sp[i], y_clusters, x_clusters))]])

AutoViewsByCols(n, grid) ==
  CASE n = 1 -> <<"front">>
    [] n = 2 -> IF grid[2] = 1 THEN <<"left", "right">> ELSE <<"front", "back">>
    [] n = 4 -> <<"front", "back", "left", "right">>
    [] n = 6 -> IF grid[1] = 3 /\ grid[2] = 2
                THEN <<"front", "top", "side_a", "bottom", "side_b", "back">>
                ELSE IF grid[1] = 2 /\ grid[2] = 3
                THEN <<"front", "top", "back", "left", "right", "bottom">>
                ELSE <<"front", "back", "left", "right", "top", "bottom">>

AutoViews(n, grid) ==
  CASE n = 1 -> <<"front">>
    [] n = 2 -> IF grid[1] = 1 THEN <<"left", "right">> ELSE <<"front", "back">>
    [] n = 4 -> <<"front", "back", "left", "right">>
    [] n = 6 -> IF grid[1] = 3 /\ grid[2] = 2
                THEN <<"front", "top", "side_a", "bottom", "side_b", "back">>
                ELSE IF grid[1] = 2 /\ grid[2] = 3
                THEN <<"front", "top", "back", "left", "right", "bottom">>
                ELSE <<"front", "back", "left", "right", "top", "bottom">>

_classify_views_strict(sp, layout_hint) ==
  IF Len(sp) = 0 THEN sp
  ELSE IF layout_hint = "3x2" /\ Len(sp) > 6
  THEN Relabel(sp, <<"front", "top", "side_a", "bottom", "side_b", "back">>)
  ELSE IF layout_hint = "2x3" /\ Len(sp) > 6
  THEN Relabel(sp, <<"front", "top", "back", "left", "right", "bottom">>)
  ELSE IF layout_hint = "2x2" /\ Len(sp) > 4
  THEN Relabel(sp, <<"front", "back", "left", "right">>)
  ELSE IF Len(sp) \in {1, 2, 4, 6}
  THEN Relabel(sp, AutoViews(Len(sp), _detect_grid_structure(sp)))
  ELSE GridLabels(sp, Clusters(YCenters(sp)), Clusters(XCenters(sp)))

_classify_views(sp, layout_hint) ==
  IF Len(sp) = 0 THEN sp
  ELSE IF layout_hint = "3x2" /\ Len(sp) >= 6
  THEN Relabel(sp, <<"front", "top", "side_a", "bottom", "side_b", "back">>)
  ELSE IF layout_hint = "2x3" /\ Len(sp) >= 6
  THEN Relabel(sp, <<"front", "top", "back", "left", "right", "bottom">>)
  ELSE IF layout_hint = "2x2" /\ Len(sp) >= 4
  THEN Relabel(sp, <<"front", "back", "left", "right">>)
  ELSE IF Len(sp) \in {1, 2, 4, 6}
  THEN Relabel(sp, AutoViews(Len(sp), _detect_grid_structure(sp)))
  ELSE GridLabels(sp, Clusters(YCenters(sp)), Clusters(XCenters(sp)))

(***************************************************************************)
(* detect_sprites on a loaded buffer with three dimensions.                *)
(***************************************************************************)
BoundingRects(contours) ==
  List([i \in 1..Len(contours) |-> BoundingRect(contours[i])])

Contours(src, threshold) ==
  FindContours(Images[src], CleanMask(Images[src], threshold))

DetectBoxes(src, threshold, min_area) ==
  SortBBoxes(FilterArea(BoundingRects(Contours(src, threshold)), min_area))

ClassifyAlways(created, layout_hint) ==
  [classified |-> TRUE, sprites |-> _classify_views(created, layout_hint)]

\* if len(self.sprites) > 0: self._classify_views(layout_hint)
ClassifyIfAny(created, layout_hint) ==
  IF Len(created) > 0
  THEN [classified |-> TRUE, sprites |-> _classify_views(created, layout_hint)]
  ELSE [classified |-> FALSE, sprites |-> created]

\* lines 131-149, from the contours on
SpritesOf(src, contours, min_area, layout_hint) ==
  ClassifyIfAny(MakeSprites(src, SortBBoxes(FilterArea(BoundingRects(contours),
                                                       min_area))),
                layout_hint)

DetectSprites(src, threshold, min_area, layout_hint) ==
  SpritesOf(src, Contours(src, threshold), min_area, layout_hint)

\* the results of the operators above, computed once per argument tuple
MaskTable == [src \in ImageIds, t \in Thresholds |-> CleanMask(Images[src], t)]

ContourTable ==
  [src \in ImageIds, t \in Thresholds |-> FindContours(Images[src], MaskTable[src, t])]

DetectTable ==
  [src \in ImageIds, t \in Thresholds, a \in MinAreas, h \in LayoutHints |->
     SpritesOf(src, ContourTable[src, t], a, h)]

(***************************************************************************)
(* The state machine.                                                      *)
(***************************************************************************)
Init ==
  /\ original_image = None
  /\ image_path = None
  /\ sprites = <<>>
  /\ last_mask = Absent
  /\ ret = [op |-> "init"]
  /\ edits = 0
  /\ extractors = <<>>
  /\ threads = <<>>
  /\ batch = <<>>

load_image_unchecked(path) ==
  LET r == imread(path)
  IN  /\ image_path' = path
      /\ original_image' = IF r.raised THEN original_image ELSE r.value
      /\ ret' = [op |-> "load", path |-> path, raised |-> FALSE,
                 value |-> ~r.raised]
      /\ UNCHANGED <<sprites, last_mask, edits, extractors, threads, batch>>

\* SpriteExtractor.load_image
load_image(path) ==
  LET r == imread(path)
  IN  /\ image_path' = path
      /\ original_image' = IF r.raised THEN original_image ELSE r.value
      /\ ret' = [op |-> "load", path |-> path, raised |-> FALSE,
                 value |-> ~r.raised /\ r.value # None]
      /\ UNCHANGED <<sprites, last_mask, edits, extractors, threads, batch>>

DetectRet(args, again, raised, value, classified) ==
  [op |-> "detect", args |-> args, again |-> again, raised |-> raised,
   value |-> value, classified |-> classified]

\* whether this call repeats the call before it
Again(args) == ret.op = "detect" /\ ret.args = args

detect_sprites_no_reset(threshold, min_area, layout_hint) ==
  IF original_image = None
  THEN /\ ret' = DetectRet(<<threshold, min_area, layout_hint>>,
                           Again(<<threshold, min_area, layout_hint>>),
                           FALSE, <<>>, FALSE)
       /\ UNCHANGED <<original_image, image_path, sprites, last_mask, edits,
                       extractors, threads, batch>>
  ELSE IF Images[original_image].ch < 3
  THEN /\ ret' = DetectRet(<<threshold, min_area, layout_hint>>,
                           Again(<<threshold, min_area, layout_hint>>),
                           TRUE, <<>>, FALSE)
       /\ UNCHANGED <<original_image, image_path, sprites, last_mask, edits,
                       extractors, threads, batch>>
  ELSE LET found == DetectTable[original_image, threshold, min_area, layout_hint]
       IN  /\ sprites' = sprites \o found.sprites
           /\ edits' = 0
           /\ last_mask' = Some(MaskTable[original_image, threshold])
           /\ ret' = DetectRet(<<threshold, min_area, layout_hint>>,
                               Again(<<threshold, min_area, layout_hint>>),
                               FALSE, sprites \o found.sprites, found.classified)
           /\ UNCHANGED <<original_image, image_path, extractors, threads, batch>>

\* SpriteExtractor.detect_sprites
detect_sprites(threshold, min_area, layout_hint) ==
  IF original_image = None
  THEN \* return [] before self.sprites is touched
       /\ ret' = DetectRet(<<threshold, min_area, layout_hint>>,
                           Again(<<threshold, min_area, layout_hint>>),
                           FALSE, <<>>, FALSE)
       /\ UNCHANGED <<original_image, image_path, sprites, last_mask, edits,
                       extractors, threads, batch>>
  ELSE IF Images[original_image].ch < 3
  THEN \* self.sprites = [], then original_image.shape[2] on a
       \* two-dimensional buffer: IndexError
       /\ sprites' = <<>>
       /\ edits' = 0
       /\ ret' = DetectRet(<<threshold, min_area, layout_hint>>,
                           Again(<<threshold, min_area, layout_hint>>),
                           TRUE, <<>>, FALSE)
       /\ UNCHANGED <<original_image, image_path, last_mask, extractors, threads, batch>>
  ELSE LET found == DetectTable[original_image, threshold, min_area, layout_hint]
       IN  /\ sprites' = found.sprites
           /\ edits' = 0
           /\ last_mask' = Some(MaskTable[original_image, threshold])
           /\ ret' = DetectRet(<<threshold, min_area, layout_hint>>,
                               Again(<<threshold, min_area, layout_hint>>),
                               FALSE, found.sprites, found.classified)
           /\ UNCHANGED <<original_image, image_path, extractors, threads, batch>>

get_sprite_no_lower(index) ==
  /\ ret' = [op |-> "get", index |-> index,
             raised |-> index < 0 /\ Len(sprites) + index < 0,
             value |-> IF index < Len(sprites) /\ Len(sprites) + index >= 0
                       THEN Some(sprites[IF index >= 0 THEN index + 1
                                         ELSE Len(sprites) + index + 1])
                       ELSE Absent]
  /\ UNCHANGED <<original_image, image_path, sprites, last_mask, edits,
                  extractors, threads, batch>>

\* SpriteExtractor.get_sprite
get_sprite(index) ==
  /\ ret' = [op |-> "get", index |-> index, raised |-> FALSE,
             value |-> IF 0 <= index /\ index < Len(sprites)
                       THEN Some(sprites[index + 1]) ELSE Absent]
  /\ UNCHANGED <<original_image, image_path, sprites, last_mask, edits,
                  extractors, threads, batch>>

(***************************************************************************)
(* export_sprites.                                                         *)
(***************************************************************************)
Prefix == "sprite"
Format == "png"

SeqMax(f) == CHOOSE m \in {f[i] : i \in 1..Len(f)} : \A i \in 1..Len(f) : f[i] <= m

\* f"{sprite.index + 1:02d}"
Pad2(n) == IF n < 10 THEN "0" \o ToString(n) ELSE ToString(n)

FileNameByView(sprite, use_view_names) ==
  IF use_view_names
  THEN Prefix \o "_" \o sprite.view_type \o "." \o Format
  ELSE Prefix \o "_" \o Pad2(sprite.index + 1) \o "." \o Format

FileName(sprite, use_view_names) ==
  IF use_view_names /\ sprite.view_type # "unknown"
  THEN Prefix \o "_" \o sprite.view_type \o "." \o Format
  ELSE Prefix \o "_" \o Pad2(sprite.index + 1) \o "." \o Format

\* sum of the values of one pixel over the channels of the buffer
ChannelSum(img, v, a) == IF img.ch = 4 THEN 3 * v + a ELSE img.ch * v

\* original_image.mean() > 127, over all pixels and channels
MeanIsLight(img) ==
  ChannelSum(img, img.v, img.a) * img.w * img.h
  + SeqSum([i \in 1..Len(img.blobs) |->
      (ChannelSum(img, img.blobs[i].v, img.blobs[i].a)
       - ChannelSum(img, img.v, img.a))
      * Area(BlobRect(img.blobs[i]))])
  > LightLevel * img.w * img.h * img.ch

TargetSizeOwn(sp, sprite, padding, uniform_size) ==
  << sprite.image.w + 2 * padding, sprite.image.h + 2 * padding >>

\* the canvas size of one sprite
TargetSize(sp, sprite, padding, uniform_size) ==
  IF uniform_size /\ Len(sp) > 0
  THEN << SeqMax([i \in 1..Len(sp) |-> sp[i].bbox[3]]) + 2 * padding,
          SeqMax([i \in 1..Len(sp) |-> sp[i].bbox[4]]) + 2 * padding >>
  ELSE << sprite.image.w + 2 * padding, sprite.image.h + 2 * padding >>

\* the failure, if any, of the loop body on one sprite
ExportFails(src, sprite, padding, uniform_size) ==
  /\ padding > 0 \/ uniform_size
  /\ \/ sprite.image.ch < 3            \* sprite_img.shape[2]: IndexError
     \/ sprite.image.ch # 4 /\ src = None  \* None.mean(): AttributeError

CanvasTopLeft(src, sprite, size) ==
  [index |-> sprite.index, w |-> size[1], h |-> size[2],
   ch |-> IF sprite.image.ch = 4 THEN 4 ELSE 3,
   fill |-> IF sprite.image.ch = 4 THEN 0
            ELSE IF MeanIsLight(Images[src]) THEN MaxVal ELSE 0,
   x_offset |-> 0, y_offset |-> 0,
   crop |-> sprite.image, bbox |-> sprite.bbox]

\* the image handed to cv2.imwrite for one sprite:
\* the crop pasted at the centre of a new canvas
Canvas(src, sprite, size) ==
  [index |-> sprite.index, w |-> size[1], h |-> size[2],
   ch |-> IF sprite.image.ch = 4 THEN 4 ELSE 3,
   fill |-> IF sprite.image.ch = 4 THEN 0
            ELSE IF MeanIsLight(Images[src]) THEN MaxVal ELSE 0,
   x_offset |-> (size[1] - sprite.image.w) \div 2,
   y_offset |-> (size[2] - sprite.image.h) \div 2,
   crop |-> sprite.image, bbox |-> sprite.bbox]

ExportImageRotated(src, sp, sprite, padding, uniform_size) ==
  IF sprite.rotation \in {90, 270}
  THEN [index |-> sprite.index, w |-> sprite.image.h, h |-> sprite.image.w,
        ch |-> sprite.image.ch, fill |-> 0, x_offset |-> 0, y_offset |-> 0,
        crop |-> sprite.image, bbox |-> sprite.bbox]
  ELSE IF padding > 0 \/ uniform_size
  THEN Canvas(src, sprite, TargetSize(sp, sprite, padding, uniform_size))
  ELSE [index |-> sprite.index, w |-> sprite.image.w, h |-> sprite.image.h,
        ch |-> sprite.image.ch, fill |-> 0, x_offset |-> 0, y_offset |-> 0,
        crop |-> sprite.image, bbox |-> sprite.bbox]

ExportImage(src, sp, sprite, padding, uniform_size) ==
  IF padding > 0 \/ uniform_size
  THEN Canvas(src, sprite, TargetSize(sp, sprite, padding, uniform_size))
  ELSE [index |-> sprite.index, w |-> sprite.image.w, h |-> sprite.image.h,
        ch |-> sprite.image.ch, fill |-> 0, x_offset |-> 0, y_offset |-> 0,
        crop |-> sprite.image, bbox |-> sprite.bbox]

\* the outcome of the export loop: the sprites handled before the first
\* failure, the returned paths and the files of the output directory
LastNamed(names, f) ==
  CHOOSE i \in 1..Len(names) :
    names[i] = f /\ \A j \in 1..Len(names) : names[j] = f => j <= i

\* the files of the output directory: a later write replaces an earlier one
Written(src, sp, names, padding, uniform_size) ==
  [f \in {names[i] : i \in 1..Len(names)} |->
     ExportImage(src, sp, sp[LastNamed(names, f)], padding, uniform_size)]

FileNames(sp, done, use_view_names) ==
  List([i \in 1..done |-> FileName(sp[i], use_view_names)])

ExportLoop(src, sp, bad, use_view_names, padding, uniform_size) ==
  [raised |-> bad # {},
   value |-> IF bad # {} THEN <<>> ELSE FileNames(sp, Len(sp), use_view_names),
   files |-> Written(src, sp,
                     FileNames(sp, IF bad = {} THEN Len(sp) ELSE MinOf(bad) - 1,
                               use_view_names),
                     padding, uniform_size)]

ExportResult(src, sp, use_view_names, padding, uniform_size) ==
  ExportLoop(src, sp,
             {i \in 1..Len(sp) : ExportFails(src, sp[i], padding, uniform_size)},
             use_view_names, padding, uniform_size)

\* SpriteExtractor.export_sprites
ExportRet(args, r) ==
  [op |-> "export", args |-> args, raised |-> r.raised, value |-> r.value,
   files |-> r.files]

export_sprites(use_view_names, padding, uniform_size) ==
  /\ ret' = ExportRet(<<use_view_names, padding, uniform_size>>,
                      ExportResult(original_image, sprites, use_view_names,
                                   padding, uniform_size))
  /\ UNCHANGED <<original_image, image_path, sprites, last_mask, edits,
                  extractors, threads, batch>>

(***************************************************************************)
(* Manual edits of the front-end (src/main_window.py).                     *)
(***************************************************************************)
\* MainWindow.set_sprite_view
set_sprite_view(index, view_type) ==
  /\ edits < MaxEdits
  /\ 0 <= index /\ index < Len(sprites)
  /\ sprites' = [sprites EXCEPT ![index + 1].view_type = view_type]
  /\ edits' = edits + 1
  /\ ret' = [op |-> "set_view", index |-> index]
  /\ UNCHANGED <<original_image, image_path, last_mask, extractors, threads, batch>>

\* MainWindow.rotate_selected_sprite
rotate_selected_sprite(index, angle) ==
  /\ edits < MaxEdits
  /\ index # -1
  /\ 0 <= index /\ index < Len(sprites)
  /\ sprites' = [sprites EXCEPT ![index + 1].rotation = angle]
  /\ edits' = edits + 1
  /\ ret' = [op |-> "rotate", index |-> index]
  /\ UNCHANGED <<original_image, image_path, last_mask, extractors, threads, batch>>

Next ==
  \/ \E path \in Paths : load_image(path)
  \/ \E t \in Thresholds, a \in MinAreas, h \in LayoutHints : detect_sprites(t, a, h)
  \/ \E i \in Indices : get_sprite(i)
  \/ \E u \in BOOLEAN, p \in Paddings, s \in BOOLEAN : export_sprites(u, p, s)
  \/ \E i \in Indices, v \in QuickViews : set_sprite_view(i, v)
  \/ \E i \in Indices, a \in Angles : rotate_selected_sprite(i, a)

Spec == Init /\ [][Next]_vars

(***************************************************************************)
(* A session of a client on one sheet: a fresh extractor loads one file    *)
(* (MainWindow.load_image, the fixtures of src/tests), detection reruns    *)
(* whenever a detection parameter changes, and export runs once a          *)
(* detection found sprites.                                                *)
(***************************************************************************)
SheetPaths == GridPaths \cup {"sheet_png"} \cup DOMAIN SmallFiles

session_load(path) == image_path = None /\ load_image(path)

on_detection_params_changed(threshold, min_area, layout_hint) ==
  original_image # None /\ detect_sprites(threshold, min_area, layout_hint)

session_export(use_view_names, padding, uniform_size) ==
  /\ ret.op \in {"detect", "export"}
  /\ Len(sprites) > 0
  /\ export_sprites(use_view_names, padding, uniform_size)

SheetNext ==
  \/ \E path \in SheetPaths : session_load(path)
  \/ \E t \in Thresholds, a \in MinAreas, h \in LayoutHints :
       on_detection_params_changed(t, a, h)
  \/ \E u \in BOOLEAN, p \in Paddings, s \in BOOLEAN : session_export(u, p, s)

SheetSpec == Init /\ [][SheetNext]_vars

(***************************************************************************)
(* Properties.                                                             *)
(***************************************************************************)
AfterDetect == ret.op = "detect"

Returned == AfterDetect /\ ~ret.raised

\* C1: load(path) never raises and returns a boolean; it returns false when
\* the file is missing or cannot be decoded, and true only when
\* original_image holds the buffer decoded from that path.
C1_LoadReturnsBool ==
  ret.op = "load" =>
    /\ ~ret.raised
    /\ ret.value \in BOOLEAN
    /\ (Disk[ret.path] \in {"missing", "undecodable"} => ret.value = FALSE)
    /\ (ret.value = TRUE =>
          original_image \in ImageIds /\ original_image = Disk[ret.path])
    /\ image_path = ret.path

\* a failed load of a missing file issued after a successful detection
C1_Witness ==
  /\ ret.op = "load"
  /\ Disk[ret.path] = "missing"
  /\ ret.value = FALSE
  /\ Len(sprites) > 0

\* C2: after every detect call that returns, the sprites of the state are
\* exactly the list the call returned.
C2_DetectReplacesSprites == Returned => sprites = ret.value

\* C3: get(index) returns absent, without error, when index < 0 or
\* index >= the number of current sprites, and otherwise the current sprite
\* whose index field equals the requested index.
C3_GetBoundsChecked ==
  ret.op = "get" =>
    /\ ~ret.raised
    /\ IF ret.index < 0 \/ ret.index >= Len(sprites)
       THEN ret.value = Absent
       ELSE /\ Len(ret.value) = 1
            /\ ret.value[1].index = ret.index
            /\ \E i \in 1..Len(sprites) : sprites[i] = ret.value[1]

\* get(-1) on a state that holds several sprites
C3_Witness ==
  /\ ret.op = "get"
  /\ ret.index = -1
  /\ Len(sprites) >= 2
  /\ ret.value = Absent

\* C4: a detect call that repeats the previous detect call (same buffer,
\* same threshold, min_area and layout hint) has the same outcome: the same
\* sprites in the same order with the same boxes, indices and labels.
C4_DetectDeterministic ==
  [][(AfterDetect /\ ret'.op = "detect" /\ ret'.args = ret.args)
       => (ret'.raised = ret.raised /\ ret'.value = ret.value)]_vars

\* a repeated detect call that returned several sprites
C4_Witness == Returned /\ ret.again /\ Len(ret.value) >= 3

\* C5: after a detect call every sprite of the state carries the label the
\* classifier gave it in this call and no rotation set by hand (a rotation
\* that was never assigned is counted as the default here).
C5_DetectResetsEdits ==
  AfterDetect =>
    \A i \in 1..Len(sprites) :
      /\ sprites[i].rotation \in {0, NoRotation}
      /\ i <= Len(ret.value)
      /\ sprites[i].view_type = ret.value[i].view_type

\* C6: every sprite returned by detect has a rotation field equal to 0.
C6_RotationDefault ==
  Returned => \A i \in 1..Len(ret.value) : ret.value[i].rotation = 0

\* C7: every bbox of the state's sprites lies within the extent of the
\* current original_image.
C7_BBoxInsideImage ==
  \A i \in 1..Len(sprites) :
    /\ original_image \in ImageIds
    /\ sprites[i].bbox[1] >= 0
    /\ sprites[i].bbox[2] >= 0
    /\ sprites[i].bbox[1] + sprites[i].bbox[3] <= Images[original_image].w
    /\ sprites[i].bbox[2] + sprites[i].bbox[4] <= Images[original_image].h

RegionTable ==
  [src \in ImageIds, t \in Thresholds |-> BoundingRects(ContourTable[src, t])]

ReturnedBoxes == {ret.value[i].bbox : i \in 1..Len(ret.value)}

\* the detect call reached region extraction
Extracted ==
  AfterDetect /\ original_image \in ImageIds /\ Images[original_image].ch >= 3

RegionsOf(r) == RegionTable[original_image, r.args[1]]

\* C8: no sprite returned by detect has width * height < min_area, and
\* every region of the cleaned mask whose bounding box has
\* width * height >= min_area is returned.
C8_AreaFilter ==
  Extracted =>
    /\ ~ret.raised
    /\ \A b \in ReturnedBoxes : ~(b[3] * b[4] < ret.args[2])
    /\ \A k \in 1..Len(RegionsOf(ret)) :
         RegionsOf(ret)[k][3] * RegionsOf(ret)[k][4] >= ret.args[2]
           => RegionsOf(ret)[k] \in ReturnedBoxes
    /\ ReturnedBoxes \subseteq {RegionsOf(ret)[k] : k \in 1..Len(RegionsOf(ret))}

\* a detection that keeps a region whose area equals min_area
C8_Witness ==
  /\ Extracted
  /\ \E b \in ReturnedBoxes : b[3] * b[4] = ret.args[2]

\* C9: when no region survives the area filter, detect returns an empty
\* list without failing, does not run the classifier, and leaves the state
\* with no sprites.
C9_EmptyDetection ==
  (Extracted /\ \A k \in 1..Len(RegionsOf(ret)) :
                  RegionsOf(ret)[k][3] * RegionsOf(ret)[k][4] < ret.args[2])
    => /\ ~ret.raised
       /\ ret.value = <<>>
       /\ sprites = <<>>
       /\ ~ret.classified

\* min_area above every region of a buffer that does hold regions
C9_Witness ==
  /\ Extracted
  /\ Len(RegionsOf(ret)) >= 3
  /\ ret.value = <<>>
  /\ sprites = <<>>

KeyOf(s) == <<PyRoundDiv(s.bbox[2], 50) * 50, s.bbox[1]>>

\* C10: the sprites returned by detect are in non-decreasing order of
\* (round(y/50)*50, x), their index fields are 0..N-1 in that order, and of
\* two sprites in the same 50px band the one with the smaller x has the
\* smaller index.
C10_SortOrder ==
  Returned =>
    /\ \A i \in 1..Len(ret.value) : ret.value[i].index = i - 1
    /\ \A i \in 1..Len(ret.value) - 1 :
         ~KeyLess(KeyOf(ret.value[i + 1]), KeyOf(ret.value[i]))
    /\ \A i, j \in 1..Len(ret.value) :
         (KeyOf(ret.value[i])[1] = KeyOf(ret.value[j])[1]
          /\ ret.value[i].bbox[1] < ret.value[j].bbox[1])
           => ret.value[i].index < ret.value[j].index

\* two sprites of one band where the one further left starts lower down
C10_Witness ==
  /\ Returned
  /\ \E i, j \in 1..Len(ret.value) :
       /\ i < j
       /\ KeyOf(ret.value[i])[1] = KeyOf(ret.value[j])[1]
       /\ ret.value[i].bbox[2] > ret.value[j].bbox[2]
  /\ \E i, j \in 1..Len(ret.value) :
       KeyOf(ret.value[i])[1] < KeyOf(ret.value[j])[1]

Labels(sp) == [i \in 1..Len(sp) |-> sp[i].view_type]

HintTable(hint) ==
  CASE hint = "3x2" -> <<"front", "top", "side_a", "bottom", "side_b", "back">>
    [] hint = "2x3" -> <<"front", "top", "back", "left", "right", "bottom">>
    [] hint = "2x2" -> <<"front", "back", "left", "right">>
    [] OTHER -> <<>>

HintApplies(hint, n) == hint # None /\ n >= Len(HintTable(hint))

\* a detect call that returned from a loaded buffer
Detected == Returned /\ original_image \in ImageIds

\* the result of the same call without a layout hint
Unhinted == DetectTable[original_image, ret.args[1], ret.args[2], None].sprites

\* C11: with a layout hint and at least as many sprites as the hint's table
\* has entries (6 for "3x2" and "2x3", 4 for "2x2"), the first sprites by
\* index carry the labels of the table in order and every further sprite
\* keeps "unknown"; with a hint and fewer sprites the labels are those of
\* the same detection without a hint.
C11_LayoutHint ==
  (Detected /\ ret.args[3] # None) =>
    IF Len(ret.value) >= Len(HintTable(ret.args[3]))
    THEN \A i \in 1..Len(ret.value) :
           ret.value[i].view_type =
             IF i <= Len(HintTable(ret.args[3]))
             THEN HintTable(ret.args[3])[i] ELSE "unknown"
    ELSE Labels(ret.value) = Labels(Unhinted)

\* hint "3x2" on a sheet with more than six sprites
C11_Witness ==
  /\ Detected
  /\ ret.args[3] = "3x2"
  /\ Len(ret.value) >= 7
  /\ ret.value[6].view_type = "back"
  /\ ret.value[7].view_type = "unknown"

ExpectedAuto(n, rows, cols) ==
  CASE n = 1 -> <<"front">>
    [] n = 2 /\ rows = 1 -> <<"left", "right">>
    [] n = 2 /\ rows # 1 -> <<"front", "back">>
    [] n = 4 -> <<"front", "back", "left", "right">>
    [] n = 6 /\ rows = 3 /\ cols = 2 ->
         <<"front", "top", "side_a", "bottom", "side_b", "back">>
    [] n = 6 /\ rows = 2 /\ cols = 3 ->
         <<"front", "top", "back", "left", "right", "bottom">>
    [] OTHER -> <<"front", "back", "left", "right", "top", "bottom">>

\* C12: without an applicable hint, 1, 2, 4 or 6 sprites are labelled by the
\* fixed table keyed by the count and the inferred (rows, cols); and the
\* 2x2 sheet of four equal squares, detected with threshold 10 and
\* min_area 100, gives exactly four sprites labelled front, back, left,
\* right in index order.
C12_AutoTable ==
  /\ Labels(DetectTable["sheet", 10, 100, None].sprites)
       = <<"front", "back", "left", "right">>
  /\ (Detected /\ ~HintApplies(ret.args[3], Len(ret.value))
               /\ Len(ret.value) \in {1, 2, 4, 6})
       => Labels(ret.value) =
            ExpectedAuto(Len(ret.value), _detect_grid_structure(ret.value)[1],
                         _detect_grid_structure(ret.value)[2])

\* six sprites in three rows of two, detected without a hint
C12_Witness ==
  /\ Detected
  /\ ret.args[3] = None
  /\ Len(ret.value) = 6
  /\ _detect_grid_structure(ret.value) = <<3, 2>>
  /\ ret.value[3].view_type = "side_a"

\* C13: without an applicable hint and with a sprite count other than 1, 2,
\* 4 and 6, every sprite is labelled row{r+1}_col{c+1} with (r, c) its grid
\* position, 0 <= r < rows and 0 <= c < cols, for the (rows, cols) inferred
\* in the same detection.
C13_GridLabels ==
  (Detected /\ ~HintApplies(ret.args[3], Len(ret.value))
            /\ Len(ret.value) \notin {0, 1, 2, 4, 6})
    => \A i \in 1..Len(ret.value) :
         \E r \in 0..(_detect_grid_structure(ret.value)[1] - 1),
            c \in 0..(_detect_grid_structure(ret.value)[2] - 1) :
           /\ <<r, c>> = _get_sprite_grid_position(ret.value, ret.value[i])
           /\ ret.value[i].view_type = GridLabel(<<r, c>>)

Exported == ret.op = "export"

TwoDigits(n) == IF n < 10 THEN "0" \o ToString(n) ELSE ToString(n)

ExpectedName(sprite, use_view_names) ==
  "sprite_"
  \o (IF use_view_names /\ sprite.view_type # "unknown"
      THEN sprite.view_type ELSE TwoDigits(sprite.index + 1))
  \o ".png"

\* C14: every path returned by export, and every file it wrote, is named
\* {prefix}_{view_type}.{format} when use_view_names is true and the
\* sprite's view_type is not "unknown", and {prefix}_{index+1 on two
\* digits}.{format} otherwise.
C14_ExportNaming ==
  Exported =>
    /\ \A i \in 1..Len(ret.value) :
         ret.value[i] = ExpectedName(sprites[i], ret.args[1])
    /\ \A f \in DOMAIN ret.files :
         /\ ret.files[f].index + 1 \in 1..Len(sprites)
         /\ f = ExpectedName(sprites[ret.files[f].index + 1], ret.args[1])

\* an export by view names of a sheet with a sprite labelled left and a
\* sprite left unknown
C14_Witness ==
  /\ Exported
  /\ ret.args[1] = TRUE
  /\ Len(ret.value) >= 7
  /\ sprites[4].view_type = "left"
  /\ ret.value[4] = "sprite_left.png"
  /\ sprites[7].view_type = "unknown"
  /\ ret.value[7] = "sprite_07.png"

MaxWidth == SeqMax([i \in 1..Len(sprites) |-> sprites[i].bbox[3]])

MaxHeight == SeqMax([i \in 1..Len(sprites) |-> sprites[i].bbox[4]])

\* the sprite a written file was made from
SpriteOf(file) == sprites[file.index + 1]

\* C15: with uniform_size every written image measures
\* (max_w + 2*padding, max_h + 2*padding), the maxima taken over all current
\* sprites; without it every written image measures its own sprite's
\* crop plus 2*padding per axis, hence exactly the crop for padding 0.
C15_CanvasSize ==
  Exported =>
    \A f \in DOMAIN ret.files :
      /\ SpriteOf(ret.files[f]).image.w = SpriteOf(ret.files[f]).bbox[3]
      /\ SpriteOf(ret.files[f]).image.h = SpriteOf(ret.files[f]).bbox[4]
      /\ IF ret.args[3]
         THEN /\ ret.files[f].w = MaxWidth + 2 * ret.args[2]
              /\ ret.files[f].h = MaxHeight + 2 * ret.args[2]
         ELSE /\ ret.files[f].w = SpriteOf(ret.files[f]).bbox[3] + 2 * ret.args[2]
              /\ ret.files[f].h = SpriteOf(ret.files[f]).bbox[4] + 2 * ret.args[2]

\* a padded uniform export of sprites of different sizes
C15_Witness ==
  /\ Exported
  /\ ~ret.raised
  /\ ret.args[2] > 0
  /\ ret.args[3]
  /\ \E f \in DOMAIN ret.files :
       /\ SpriteOf(ret.files[f]).bbox[3] < MaxWidth
       /\ SpriteOf(ret.files[f]).bbox[4] < MaxHeight

\* C16: an export that returns gives one path per current sprite, the paths
\* are pairwise distinct and each names a file of the output directory, so
\* the directory holds one file per sprite.
C16_OneFilePerSprite ==
  (Exported /\ ~ret.raised) =>
    /\ Len(ret.value) = Len(sprites)
    /\ \A i, j \in 1..Len(ret.value) : i # j => ret.value[i] # ret.value[j]
    /\ \A i \in 1..Len(ret.value) : ret.value[i] \in DOMAIN ret.files
    /\ Cardinality(DOMAIN ret.files) = Len(sprites)

Unrotated(sp) == [i \in 1..Len(sp) |-> [sp[i] EXCEPT !.rotation = 0]]

AsUnrotated ==
  ExportResult(original_image, Unrotated(sprites), ret.args[1], ret.args[2],
               ret.args[3])

\* C17: whatever rotations the sprites carry, export returns the paths and
\* writes the files (names, dimensions, crops) it would with every rotation
\* equal to 0; and a rotation step changes no sprite's bbox or image.
C17_RotationIgnored ==
  /\ [](Exported => /\ ret.raised = AsUnrotated.raised
                     /\ ret.value = AsUnrotated.value
                     /\ ret.files = AsUnrotated.files)
  /\ [][ret'.op = "rotate" =>
          /\ Len(sprites') = Len(sprites)
          /\ \A i \in 1..Len(sprites) :
               /\ sprites'[i].bbox = sprites[i].bbox
               /\ sprites'[i].image = sprites[i].image]_vars

\* an export of a sprite that is not square and was rotated by 90 degrees
C17_Witness ==
  /\ Exported
  /\ ~ret.raised
  /\ \E i \in 1..Len(sprites) :
       /\ sprites[i].rotation = 90
       /\ sprites[i].bbox[3] # sprites[i].bbox[4]
       /\ ret.value[i] \in DOMAIN ret.files
       /\ ret.files[ret.value[i]].w = sprites[i].bbox[3] + 2 * ret.args[2]

\* the mask the claimed mode selection leads to
ClaimedMask(img, threshold) ==
  CleanAll(img, RawRegions(img,
                           img.ch = 4 /\ (img.a < MaxVal
                              \/ \E i \in 1..Len(img.blobs) : img.blobs[i].a < MaxVal),
                           IsLightBg(img), threshold))

\* C18: on a loaded buffer of 1, 3 or 4 channels detect returns without
\* failing, in alpha mode exactly when the buffer has 4 channels and some
\* pixel has alpha < 255, in luminance mode otherwise.
C18_ChannelCounts ==
  (AfterDetect /\ original_image \in ImageIds) =>
    /\ ~ret.raised
    /\ last_mask = Some(ClaimedMask(Images[original_image], ret.args[1]))

\* C19: the image of every sprite owns its pixel storage: it is a view of
\* no other array, so it shares storage neither with the source buffer nor
\* with the image of another sprite.
C19_OwnedCopies ==
  \A i \in 1..Len(sprites) : sprites[i].image.base = None

(***************************************************************************)
(* Two detect_sprites calls run by two threads, statement by statement.    *)
(* Each thread works on one SpriteExtractor instance (its self); the       *)
(* attributes of an instance are shared by the threads that use it, the    *)
(* locals of a call (image, bboxes, the loop index) are the thread's own.  *)
(***************************************************************************)
Threads == {1, 2}
Instances == {"a", "b"}
ConcImages == {"sheet", "light"}
ConcArgs == {<<10, 100, None>>, <<10, 2000, "2x2">>}

main_vars == <<original_image, image_path, sprites, last_mask, ret, edits, batch>>

\* an instance after load_image, before any detection
Loaded(src) == [original_image |-> src, sprites |-> <<>>, last_mask |-> Absent]

Call(self, args) ==
  [self |-> self, args |-> args, pc |-> "check", image |-> None,
   bboxes |-> <<>>, idx |-> 0, raised |-> FALSE, result |-> Absent]

ConcInit ==
  /\ original_image = None
  /\ image_path = None
  /\ sprites = <<>>
  /\ last_mask = Absent
  /\ ret = [op |-> "init"]
  /\ edits = 0
  /\ batch = <<>>
  /\ extractors \in [Instances -> {Loaded(src) : src \in ConcImages}]
  /\ threads \in {f \in [Threads -> {Call(e, a) : e \in Instances, a \in ConcArgs}] :
                    f[1].self = "a"}

Self(t) == extractors[threads[t].self]

\* lines 57-58: if self.original_image is None: return []
detect_check(t) ==
  /\ threads[t].pc = "check"
  /\ threads' = IF Self(t).original_image = None
                THEN [threads EXCEPT ![t].pc = "done", ![t].result = Some(<<>>)]
                ELSE [threads EXCEPT ![t].pc = "reset"]
  /\ UNCHANGED <<extractors, main_vars>>

\* lines 60-61: self.sprites = []; image = self.original_image.copy()
detect_reset(t) ==
  /\ threads[t].pc = "reset"
  /\ extractors' = [extractors EXCEPT ![threads[t].self].sprites = <<>>]
  /\ threads' = [threads EXCEPT ![t].pc = "mask",
                                ![t].image = Self(t).original_image]
  /\ UNCHANGED main_vars

\* lines 63-139: the mask, kept in self._last_binary_mask, and the sorted
\* bounding boxes; a buffer of two dimensions raises at line 71
detect_mask(t) ==
  /\ threads[t].pc = "mask"
  /\ IF Images[threads[t].image].ch < 3
     THEN /\ threads' = [threads EXCEPT ![t].pc = "done", ![t].raised = TRUE]
          /\ UNCHANGED extractors
     ELSE /\ extractors' =
               [extractors EXCEPT ![threads[t].self].last_mask =
                  Some(MaskTable[threads[t].image, threads[t].args[1]])]
          /\ threads' =
               [threads EXCEPT
                  ![t].pc = "append",
                  ![t].bboxes =
                     SortBBoxes(FilterArea(
                       RegionTable[threads[t].image, threads[t].args[1]],
                       threads[t].args[2]))]
  /\ UNCHANGED main_vars

detect_append_shared(t) ==
  /\ threads[t].pc = "append"
  /\ threads[t].idx < Len(threads[t].bboxes)
  /\ extractors' =
       [extractors EXCEPT !["a"].sprites =
          Append(@, NewSprite(threads[t].image, threads[t].idx,
                              threads[t].bboxes[threads[t].idx + 1]))]
  /\ threads' = [threads EXCEPT ![t].idx = @ + 1]
  /\ UNCHANGED main_vars

\* lines 142-145, one iteration: self.sprites.append(Sprite(...))
detect_append(t) ==
  /\ threads[t].pc = "append"
  /\ threads[t].idx < Len(threads[t].bboxes)
  /\ extractors' =
       [extractors EXCEPT ![threads[t].self].sprites =
          Append(@, NewSprite(threads[t].image, threads[t].idx,
                              threads[t].bboxes[threads[t].idx + 1]))]
  /\ threads' = [threads EXCEPT ![t].idx = @ + 1]
  /\ UNCHANGED main_vars

\* lines 148-149, after the loop:
\* if len(self.sprites) > 0: self._classify_views(layout_hint)
detect_classify(t) ==
  /\ threads[t].pc = "append"
  /\ threads[t].idx = Len(threads[t].bboxes)
  /\ extractors' =
       [extractors EXCEPT ![threads[t].self].sprites =
          ClassifyIfAny(@, threads[t].args[3]).sprites]
  /\ threads' = [threads EXCEPT ![t].pc = "return"]
  /\ UNCHANGED main_vars

\* line 151: return self.sprites
detect_return(t) ==
  /\ threads[t].pc = "return"
  /\ threads' = [threads EXCEPT ![t].pc = "done",
                                ![t].result = Some(Self(t).sprites)]
  /\ UNCHANGED <<extractors, main_vars>>

ConcNext ==
  \/ \E t \in Threads : detect_check(t)
  \/ \E t \in Threads : detect_reset(t)
  \/ \E t \in Threads : detect_mask(t)
  \/ \E t \in Threads : detect_append(t)
  \/ \E t \in Threads : detect_classify(t)
  \/ \E t \in Threads : detect_return(t)

ConcSpec == ConcInit /\ [][ConcNext]_vars

\* what the call of thread t gives when it runs alone on its instance
Alone(t) ==
  DetectTable[Self(t).original_image, threads[t].args[1], threads[t].args[2],
              threads[t].args[3]].sprites

BothDone == \A t \in Threads : threads[t].pc = "done"

\* C20: two detect calls on two different instances end, under every
\* interleaving of their statements, with the result each call has when
\* run alone: the returned list, the sprites and the mask of its instance.
\* (That two calls on one instance can end otherwise is shown by the
\* reachable state C20_Witness.)
C20_IndependentInstances ==
  (threads # <<>> /\ threads[1].self # threads[2].self) =>
    \A t \in Threads :
      threads[t].pc = "done" =>
        /\ ~threads[t].raised
        /\ threads[t].result = Some(Alone(t))
        /\ Self(t).sprites = Alone(t)
        /\ Self(t).last_mask =
             Some(MaskTable[Self(t).original_image, threads[t].args[1]])

\* two calls on one instance, both returned: the sprites of the instance are
\* the result of neither sequential order and hold one index twice
C20_Witness ==
  /\ threads # <<>>
  /\ threads[1].self = threads[2].self
  /\ BothDone
  /\ Self(1).sprites # Alone(1)
  /\ Self(1).sprites # Alone(2)
  /\ \E i, j \in 1..Len(Self(1).sprites) :
       i # j /\ Self(1).sprites[i].index = Self(1).sprites[j].index

(***************************************************************************)
(* MainWindow.run_batch_processing: one pass over the enumerated files.    *)
(* Each iteration works on a SpriteExtractor of its own (temp_extractor),  *)
(* a local of the loop body, and reads the detection and export settings   *)
(* from the widgets of the window.                                         *)
(***************************************************************************)
MaxFiles == 3

BatchPaths == {"sheet_png", "light_jpg", "gray_png", "corrupt_png"}

\* img_file.stem
Stem ==
  [ sheet_png |-> "sheet", light_jpg |-> "light", gray_png |-> "gray",
    corrupt_png |-> "corrupt" ]

BatchPrefix == "batch_sprite"

\* the widgets MainWindow binds to attributes of the window
WindowAttrs ==
  { "batch_prefix", "batch_recursive", "batch_log", "threshold_slider",
    "min_area_spinbox", "prefix_input", "padding_spin", "uniform_size_check",
    "export_btn" }

\* self.<name>: AttributeError when the window has no attribute of that name
HasAttr(name) == name \in WindowAttrs

\* image_files: the files found by glob, in the order found
FileLists ==
  UNION {[1..n -> BatchPaths] : n \in 0..MaxFiles}

\* one item of batch_log together with what the iteration did: the number
\* of sprites detect_sprites returned (0 when it was not reached or raised)
\* and the result of export_sprites (Absent when it was not called)
LogItem(file, status, count, exported) ==
  [file |-> file, status |-> status, count |-> count, exported |-> exported]

\* lines 216-232: the sprites were found; read the export settings, export
ExportFound(file, src, sp, padding, uniform) ==
  IF ~HasAttr("padding_spin") \/ ~HasAttr("uniform_check")
  THEN LogItem(file, "failed", Len(sp), Absent)
  ELSE IF ExportResult(src, sp, TRUE, padding, uniform).raised
  THEN LogItem(file, "failed", Len(sp), Absent)
  ELSE LogItem(file, "processed", Len(sp),
               Some([dir |-> Stem[file],
                     prefix |-> BatchPrefix \o "_" \o Stem[file],
                     files |-> ExportResult(src, sp, TRUE, padding, uniform).files]))

\* lines 207-234: the file was loaded into the buffer src
DetectLoaded(file, src, threshold, min_area, padding, uniform) ==
  IF ~HasAttr("threshold_slider") \/ ~HasAttr("min_area_spinbox")
  THEN LogItem(file, "failed", 0, Absent)
  ELSE IF Images[src].ch < 3
  THEN LogItem(file, "failed", 0, Absent)
  ELSE IF Len(DetectTable[src, threshold, min_area, None].sprites) = 0
  THEN LogItem(file, "no_sprite", 0, Absent)
  ELSE ExportFound(file, src, DetectTable[src, threshold, min_area, None].sprites,
                   padding, uniform)

\* lines 203-238: the body of the loop for one file, on a new SpriteExtractor
ProcessFile(file, threshold, min_area, padding, uniform) ==
  IF imread(file).raised \/ imread(file).value = None
  THEN LogItem(file, "load_error", 0, Absent)
  ELSE DetectLoaded(file, imread(file).value, threshold, min_area, padding,
                    uniform)

BatchInit ==
  /\ original_image = None
  /\ image_path = None
  /\ sprites = <<>>
  /\ last_mask = Absent
  /\ ret = [op |-> "init"]
  /\ edits = 0
  /\ extractors = <<>>
  /\ threads = <<>>
  /\ batch \in {[image_files |-> fs, i |-> 0, processed_count |-> 0,
                  log |-> <<>>, done |-> FALSE] : fs \in FileLists}

Logged(item) ==
  [batch EXCEPT !.i = @ + 1,
                !.log = Append(@, item),
                !.processed_count = IF item.status = "processed" THEN @ + 1 ELSE @]

\* one iteration of `for img_file in image_files`
batch_file(threshold, min_area, padding, uniform) ==
  /\ ~batch.done
  /\ batch.i < Len(batch.image_files)
  /\ batch' = Logged(ProcessFile(batch.image_files[batch.i + 1], threshold,
                                  min_area, padding, uniform))
  /\ UNCHANGED <<original_image, image_path, sprites, last_mask, ret, edits,
                  extractors, threads>>

\* the end of the handler: the closing message (line 245), or the early
\* return when no file was found (lines 194-196)
batch_finish ==
  /\ ~batch.done
  /\ batch.i = Len(batch.image_files)
  /\ batch' = [batch EXCEPT !.done = TRUE]
  /\ UNCHANGED <<original_image, image_path, sprites, last_mask, ret, edits,
                  extractors, threads>>

BatchNext ==
  \/ \E t \in Thresholds, a \in MinAreas, p \in Paddings, u \in BOOLEAN :
       batch_file(t, a, p, u)
  \/ batch_finish

\* the handler runs to its end once started
BatchSpec == BatchInit /\ [][BatchNext]_vars /\ WF_vars(BatchNext)

\* C21: the batch handles every enumerated file in order on an extractor of
\* its own and logs one outcome per file; a failure on one file does not
\* stop it, so it ends with every file attempted; and a file that loads and
\* yields at least one sprite is exported into the folder named after its
\* stem and counted as processed.
C21_BatchPerFile ==
  /\ [](/\ Len(batch.log) = batch.i
        /\ \A k \in 1..Len(batch.log) :
             /\ batch.log[k].file = batch.image_files[k]
             /\ batch.log[k].count >= 1 =>
                  /\ batch.log[k].status = "processed"
                  /\ batch.log[k].exported # Absent
                  /\ batch.log[k].exported[1].dir = Stem[batch.log[k].file]
        /\ batch.processed_count =
             Cardinality({k \in 1..Len(batch.log) :
                            batch.log[k].status = "processed"}))
  /\ <>(batch.done /\ batch.i = Len(batch.image_files))

(***************************************************************************)
(* The arithmetic of detect_sprites applied to single inputs: one pixel of *)
(* gray, one plain buffer, one pair of bounding boxes.  A behaviour starts *)
(* from one input and applies the code to it.                              *)
(***************************************************************************)
GrayLevels == 0..MaxVal

\* the values of threshold_slider
ThresholdRange == 1..MaxVal

MaxDim == 55

\* widths and heights of the buffers: every small one and some large ones
Dims == (1..MaxDim) \cup {100, 999, 1000, 1100}

PlainLevels == {0, 127, 128, 255}

\* a 3-channel buffer whose pixels all have the value v
Plain(w, h, v) == [w |-> w, h |-> h, ch |-> 3, v |-> v, a |-> MaxVal, blobs |-> <<>>]

MaxY == 130

\* bounding boxes 10 pixels square at the left or further right
PairBoxes == {<<x, y, 10, 10>> : x \in {0, 60}, y \in 0..MaxY}

UnitInit ==
  /\ original_image = None
  /\ image_path = None
  /\ sprites = <<>>
  /\ last_mask = Absent
  /\ edits = 0
  /\ extractors = <<>>
  /\ threads = <<>>
  /\ batch = <<>>
  /\ \/ \E l \in BOOLEAN, t \in ThresholdRange, g \in GrayLevels :
          ret = [op |-> "pixel", is_light_bg |-> l, threshold |-> t, gray |-> g]
     \/ \E w \in Dims, h \in Dims, v \in PlainLevels :
          ret = [op |-> "buffer", w |-> w, h |-> h, v |-> v]
     \/ \E b1 \in PairBoxes, b2 \in PairBoxes :
          ret = [op |-> "bboxes", bboxes |-> <<b1, b2>>]

\* lines 98-105 on one pixel of gray: whether binary is 255 there
threshold_pixel ==
  /\ ret.op = "pixel"
  /\ ret' = [op |-> "threshold", is_light_bg |-> ret.is_light_bg,
             threshold |-> ret.threshold, gray |-> ret.gray,
             value |-> Binary(FALSE, ret.is_light_bg, ret.threshold, ret.gray,
                              MaxVal)]
  /\ UNCHANGED <<original_image, image_path, sprites, last_mask, edits,
                  extractors, threads, batch>>

\* lines 83-96 on a plain buffer: the four samples and is_light_bg
corner_background ==
  /\ ret.op = "buffer"
  /\ ret' = [op |-> "background", w |-> ret.w, h |-> ret.h, v |-> ret.v,
             samples |-> CornerSamples(Plain(ret.w, ret.h, ret.v)),
             value |-> IsLightBg(Plain(ret.w, ret.h, ret.v))]
  /\ UNCHANGED <<original_image, image_path, sprites, last_mask, edits,
                  extractors, threads, batch>>

\* line 139 on a list of two bounding boxes
sort_pair ==
  /\ ret.op = "bboxes"
  /\ ret' = [op |-> "sort", bboxes |-> ret.bboxes,
             keys |-> <<SortKey(ret.bboxes[1]), SortKey(ret.bboxes[2])>>,
             value |-> SortBBoxes(ret.bboxes)]
  /\ UNCHANGED <<original_image, image_path, sprites, last_mask, edits,
                  extractors, threads, batch>>

UnitNext ==
  \/ threshold_pixel
  \/ corner_background
  \/ sort_pair

UnitSpec == UnitInit /\ [][UnitNext]_vars

\* C22: in luminance mode a pixel is foreground in the raw mask exactly when
\* its gray value is < 255 - threshold on a light background, and exactly
\* when its gray value is > threshold on a dark background.
C22_LuminancePredicate ==
  ret.op = "threshold" =>
    (ret.value <=> IF ret.is_light_bg THEN ret.gray < 255 - ret.threshold
                   ELSE ret.gray > ret.threshold)

\* C23: for every buffer size, dimensions below 50 pixels (margin 0)
\* included, each of the four corner samples is a non-empty region of the
\* buffer, and the background is classified light exactly when the average
\* of the four sample means is > 127 (on a plain buffer that average is the
\* value of its pixels); in particular a white buffer is classified light.
C23_CornerClassification ==
  ret.op = "background" =>
    /\ \A i \in 1..4 :
         /\ ~IsEmpty(ret.samples[i])
         /\ 0 <= ret.samples[i].x0 /\ ret.samples[i].x1 <= ret.w
         /\ 0 <= ret.samples[i].y0 /\ ret.samples[i].y1 <= ret.h
    /\ ret.value <=> ret.v > LightLevel
    /\ ret.v = MaxVal => ret.value

\* C24: the regions are taken from the mask after a band of 20 pixels was
\* zeroed on its four edges: every bbox returned by detect has 20 <= x,
\* 20 <= y, x + width <= image_width - 20 and y + height <= image_height - 20,
\* so it lies inside the image, and an image with a dimension of 40 pixels
\* or less yields no sprite.
C24_BorderSuppression ==
  Detected =>
    /\ \A i \in 1..Len(ret.value) :
         /\ Border <= ret.value[i].bbox[1]
         /\ Border <= ret.value[i].bbox[2]
         /\ ret.value[i].bbox[1] + ret.value[i].bbox[3]
              <= Images[original_image].w - Border
         /\ ret.value[i].bbox[2] + ret.value[i].bbox[4]
              <= Images[original_image].h - Border
         /\ ret.value[i].bbox[3] >= 1 /\ ret.value[i].bbox[4] >= 1
    /\ (Images[original_image].w <= 40 \/ Images[original_image].h <= 40)
         => ret.value = <<>> /\ sprites = <<>>

\* a detection on an image 40 pixels wide whose mask is not empty
C24_Witness ==
  /\ Detected
  /\ Images[original_image].w = 40
  /\ last_mask # Absent
  /\ Len(last_mask[1]) >= 1
  /\ ret.args[2] = 100
  /\ ret.value = <<>>

\* C25: the first component of the sort key, round(y/50)*50, is shared only
\* by y values of one band 50 pixels high: two boxes whose y differ by 50 or
\* more never have the same bucket, and the box that is 50 or more pixels
\* higher comes first in the sorted list (gets the smaller index).
C25_RowBuckets ==
  ret.op = "sort" =>
    /\ Abs(ret.bboxes[1][2] - ret.bboxes[2][2]) >= RowBucket
         => ret.keys[1][1] # ret.keys[2][1]
    /\ ret.bboxes[1][2] + RowBucket <= ret.bboxes[2][2]
         => ret.value = <<ret.bboxes[1], ret.bboxes[2]>>
    /\ ret.bboxes[2][2] + RowBucket <= ret.bboxes[1][2]
         => ret.value = <<ret.bboxes[2], ret.bboxes[1]>>

(***************************************************************************)
(* export_sprites applied once to the sprites of one detection, over the   *)
(* whole range of padding_spin.  The sprites are those detect_sprites      *)
(* returns on a loaded sheet, or the crops line 143 cuts from a            *)
(* single-channel buffer, put into self.sprites by the caller.             *)
(***************************************************************************)
MaxPadding == 100

ExportSources == {"sheet", "light", "murky", "uneven"}

GrayCrops == MakeSprites("gray", <<<<40, 40, 30, 30>>>>)

ExportInit ==
  /\ image_path = None
  /\ last_mask = Absent
  /\ edits = 0
  /\ extractors = <<>>
  /\ threads = <<>>
  /\ batch = <<>>
  /\ \/ \E src \in ExportSources, t \in Thresholds, a \in MinAreas,
            h \in LayoutHints :
          /\ original_image = src
          /\ sprites = DetectTable[src, t, a, h].sprites
     \/ /\ original_image = "gray"
        /\ sprites = GrayCrops
  /\ \E u \in BOOLEAN, p \in 0..MaxPadding, s \in BOOLEAN :
       ret = [op |-> "args", args |-> <<u, p, s>>]

export_call ==
  /\ ret.op = "args"
  /\ export_sprites(ret.args[1], ret.args[2], ret.args[3])

ExportNext == export_call

ExportSpec == ExportInit /\ [][ExportNext]_vars

\* a canvas is built by this export call
CanvasBuilt == Exported /\ (ret.args[2] > 0 \/ ret.args[3])

Centered(canvas_dim, sprite_dim, offset, padding, uniform_size) ==
  /\ offset = (canvas_dim - sprite_dim) \div 2
  /\ offset >= 0
  /\ offset + sprite_dim <= canvas_dim
  /\ ~uniform_size => offset = padding
  /\ (canvas_dim - sprite_dim - offset) - offset \in {0, 1}

\* C27: on each axis the crop is pasted at (canvas_dim - sprite_dim) div 2;
\* for every padding in 0..100 and every sprite set that offset is >= 0 and
\* the crop ends inside the canvas, the offset equals the padding when
\* uniform_size is false, and the margin after the crop exceeds the margin
\* before it by 0 or 1.
C27_CenteredPaste ==
  CanvasBuilt =>
    \A f \in DOMAIN ret.files :
      /\ Centered(ret.files[f].w, ret.files[f].crop.w, ret.files[f].x_offset,
                  ret.args[2], ret.args[3])
      /\ Centered(ret.files[f].h, ret.files[f].crop.h, ret.files[f].y_offset,
                  ret.args[2], ret.args[3])

\* a uniform export with padding 100 that pastes a crop narrower than the
\* widest by an odd number of pixels
C27_Witness ==
  /\ CanvasBuilt
  /\ ~ret.raised
  /\ ret.args[2] = MaxPadding
  /\ ret.args[3]
  /\ \E f \in DOMAIN ret.files :
       /\ ret.files[f].x_offset > MaxPadding
       /\ ret.files[f].w - ret.files[f].crop.w - 2 * ret.files[f].x_offset = 1

\* C28: in every state reached by load, detect, get and export calls, an
\* export call with a padding of the allowed range and any uniform_size
\* completes without raising (file system errors apart); in particular an
\* export issued after a successful load, a detect and a failed load does
\* not fail on the absent source image.
C28_ExportCompletes == Exported => ~ret.raised

\* C29: a load that returns false leaves the extractor as it was: the
\* source image, the source path, the sprites and the last mask are the
\* same after the call as before it.
C29_FailedLoadKeepsState ==
  [][(ret'.op = "load" /\ ret'.value = FALSE) =>
       /\ original_image' = original_image
       /\ image_path' = image_path
       /\ sprites' = sprites
       /\ last_mask' = last_mask]_vars

\* C30: after a detect call without a layout hint that returns at least one
\* sprite, no sprite has the view_type "unknown", and when 1, 2, 4 or 6
\* sprites are returned their labels are pairwise distinct.
C30_AutoLabelsAll ==
  (Detected /\ ret.args[3] = None /\ Len(ret.value) >= 1) =>
    /\ \A i \in 1..Len(ret.value) :
         /\ ret.value[i].view_type # "unknown"
         /\ sprites[i].view_type # "unknown"
    /\ Len(ret.value) \in {1, 2, 4, 6} =>
         \A i, j \in 1..Len(ret.value) :
           i # j => ret.value[i].view_type # ret.value[j].view_type

\* six sprites detected without a hint and labelled by the automatic table
C30_Witness ==
  /\ Detected
  /\ ret.args[3] = None
  /\ Len(ret.value) = 6
  /\ ret.value[6].view_type \in {"bottom", "back"}
  /\ Cardinality({ret.value[i].view_type : i \in 1..6}) = 6

====
